---- MODULE Spec2Model ----
(***************************************************************************)
(* A model of ring's test-vector driver (src/src/test.rs): the line        *)
(* parser parse_test_case, the TestCase accessors, the driver loop         *)
(* from_file, and the deterministic random source                          *)
(* rand::FixedSliceSequenceRandom.                                         *)
(*                                                                         *)
(* Text is modelled as a sequence of one-character strings, so that        *)
(* starts_with, ends_with, splitn, trim, pop and remove are computed       *)
(* character by character, as the code computes them.                      *)
(***************************************************************************)
EXTENDS Integers, Sequences, FiniteSets, TLC

\* ------------------------------------------------------------------ bounds

\* Lines a modelled input file may hold.
MaxLines == 4
\* Attribute lines one test case may hold.
MaxAttrs == 2
\* Accessor calls one callback invocation may make.
MaxCalls == 2
\* Vectors a FixedSliceSequenceRandom may hold.
MaxVectors == 3
\* Length of one vector, and of a destination buffer.
MaxVecLen == 1
\* fill() calls made on one FixedSliceSequenceRandom.
MaxFills == 4

\* ------------------------------------------------------------------- text

\* The keys a callback asks for: two that the input lines declare and one
\* that no line declares.
Keys == {<<"K">>, <<"J">>, <<"M">>}

\* The lines an input file is made of.
LineSet ==
    { <<>>,                                         \* blank
      <<"#", "c">>,                                 \* comment
      <<" ", "#", "c">>,                            \* indented '#'
      <<" ">>,                                      \* whitespace only
      <<"[", "s", "]">>,                            \* section s
      <<"[", "t", "]">>,                            \* section t
      <<"[", "s">>,                                 \* unterminated marker
      <<"K", " ", "=", " ", "0", "a">>,             \* K = 0a
      <<"J", " ", "=", " ", "\"", "x">>,            \* J = "x
      <<" ", "K", " ", " ", "=", " ", " ", "7", " ">>, \* padded K = 7
      <<"K", "=", "7">>,                            \* no " = " separator
      <<"K", " ", "=", " ">>,                       \* empty value
      <<"K", " ", "=", " ", " ">> }                 \* blank value

\* str::starts_with(char)
StartsWith(s, c) == Len(s) > 0 /\ s[1] = c

\* str::ends_with(char)
EndsWith(s, c) == Len(s) > 0 /\ s[Len(s)] = c

\* String::pop: drops the last character, if there is one.
Pop(s) == IF Len(s) = 0 THEN s ELSE SubSeq(s, 1, Len(s) - 1)

\* String::remove(0): drops the first character; it panics on the empty
\* string, which the callers test with CanRemove0.
CanRemove0(s) == Len(s) > 0
Remove0(s) == SubSeq(s, 2, Len(s))

\* char::is_whitespace, over the characters of the model.
IsWhitespace(c) == c = " "

\* str::trim
Trim(s) ==
    LET keep == {i \in 1..Len(s) : ~IsWhitespace(s[i])}
    IN  IF keep = {} THEN <<>>
        ELSE LET lo == CHOOSE i \in keep : \A j \in keep : i <= j
                 hi == CHOOSE i \in keep : \A j \in keep : j <= i
             IN  SubSeq(s, lo, hi)

\* Where the separator " = " occurs in a line.
SepAt(line) ==
    {i \in 1..(Len(line) - 2) :
        line[i] = " " /\ line[i + 1] = "=" /\ line[i + 2] = " "}

\* The line split at its last separator " = ".
SplitAtLast(line) ==
    IF SepAt(line) = {} THEN <<line>>
    ELSE LET i == CHOOSE k \in SepAt(line) : \A j \in SepAt(line) : j <= k
         IN  <<SubSeq(line, 1, i - 1), SubSeq(line, i + 3, Len(line))>>

\* line.splitn(2, " = "): the line split at the first separator, or the
\* whole line as the only part.
SplitN2(line) ==
    IF SepAt(line) = {} THEN <<line>>
    ELSE LET i == CHOOSE k \in SepAt(line) : \A j \in SepAt(line) : k <= j
         IN  <<SubSeq(line, 1, i - 1), SubSeq(line, i + 3, Len(line))>>

\* ------------------------------------------------------------- from_hex

HexLower == <<"0", "1", "2", "3", "4", "5", "6", "7", "8", "9",
              "a", "b", "c", "d", "e", "f">>
HexUpper == <<"0", "1", "2", "3", "4", "5", "6", "7", "8", "9",
              "A", "B", "C", "D", "E", "F">>

\* from_hex_digit: the digit's value, or -1 for Err.
FromHexDigit(d) ==
    IF \E i \in 1..16 : HexLower[i] = d
    THEN (CHOOSE i \in 1..16 : HexLower[i] = d) - 1
    ELSE IF \E i \in 11..16 : HexUpper[i] = d
         THEN (CHOOSE i \in 11..16 : HexUpper[i] = d) - 1
         ELSE -1

\* from_hex: Ok(bytes) or Err.
FromHex(s) ==
    IF Len(s) % 2 # 0 THEN [ok |-> FALSE, bytes |-> <<>>]
    ELSE IF \E i \in 1..Len(s) : FromHexDigit(s[i]) = -1
         THEN [ok |-> FALSE, bytes |-> <<>>]
         ELSE [ok |-> TRUE,
               bytes |-> [k \in 1..(Len(s) \div 2) |->
                            FromHexDigit(s[2 * k - 1]) * 16
                            + FromHexDigit(s[2 * k])]]

\* ------------------------------------------------------------- TestCase

\* One attribute of TestCase.attributes: (name, value, consumed).
Attr(n, v, c) == [name |-> n, value |-> v, consumed |-> c]

\* What an accessor call leaves behind: the attributes after the call, the
\* message of the panic that ended it ("" when it returned), whether
\* consume_optional_string returned Some, and the raw value it returned.
AccResult(attrs, panic, some, val) ==
    [attrs |-> attrs, panic |-> panic, some |-> some, val |-> val]

\* Position of the first attribute named key, 0 when there is none: the
\* attribute the loop of consume_optional_string stops at.
FirstNamed(attrs, key) ==
    IF \E i \in 1..Len(attrs) : attrs[i].name = key
    THEN CHOOSE i \in 1..Len(attrs) :
            attrs[i].name = key /\ \A j \in 1..(i - 1) : attrs[j].name # key
    ELSE 0

\* TestCase::consume_optional_string with the assignment of line 214 left
\* out: the attribute is returned and its flag stays false.
ConsumeOptionalStringNoMark(attrs, key) ==
    LET i == FirstNamed(attrs, key)
    IN  IF i = 0 THEN AccResult(attrs, "", FALSE, <<>>)
        ELSE IF attrs[i].consumed
             THEN AccResult(attrs, "AlreadyConsumed", FALSE, <<>>)
             ELSE AccResult(attrs, "", TRUE, attrs[i].value)

\* A lookup that goes on to the first attribute named key whose flag is
\* false, and panics only when all those named key are consumed.
ConsumeOptionalStringSkipConsumed(attrs, key) ==
    LET named == {i \in 1..Len(attrs) : attrs[i].name = key}
        open == {i \in named : ~attrs[i].consumed}
    IN  IF named = {} THEN AccResult(attrs, "", FALSE, <<>>)
        ELSE IF open = {}
             THEN AccResult(attrs, "AlreadyConsumed", FALSE, <<>>)
             ELSE LET i == CHOOSE k \in open : \A j \in open : k <= j
                  IN  AccResult([attrs EXCEPT ![i].consumed = TRUE], "", TRUE,
                                attrs[i].value)

\* TestCase::consume_optional_string
ConsumeOptionalString(attrs, key) ==
    LET i == FirstNamed(attrs, key)
    IN  IF i = 0 THEN AccResult(attrs, "", FALSE, <<>>)
        ELSE IF attrs[i].consumed
             THEN AccResult(attrs, "AlreadyConsumed", FALSE, <<>>)
             ELSE AccResult([attrs EXCEPT ![i].consumed = TRUE], "", TRUE,
                            attrs[i].value)

\* TestCase::consume_string
ConsumeString(attrs, key) ==
    LET r == ConsumeOptionalString(attrs, key)
    IN  IF r.panic = "" /\ ~r.some
        THEN AccResult(r.attrs, "NoAttribute", FALSE, <<>>)
        ELSE r

\* consume_bytes without the pop and the remove of lines 169-170.
DecodeBytesKeepQuotes(s) ==
    IF StartsWith(s, "\"")
    THEN IF ~EndsWith(s, "\"")
         THEN [panic |-> "ExpectedQuoted", bytes |-> <<>>]
         ELSE [panic |-> "", bytes |-> s]
    ELSE IF FromHex(s).ok
         THEN [panic |-> "", bytes |-> FromHex(s).bytes]
         ELSE [panic |-> "HexError", bytes |-> <<>>]

\* The decoding step of consume_bytes, on the raw value: the panic that
\* ends it ("" when it returns) and the bytes returned. A quoted value gives
\* its characters, a hex value the numbers from_hex decodes.
DecodeBytes(s) ==
    IF StartsWith(s, "\"")
    THEN IF ~EndsWith(s, "\"")
         THEN [panic |-> "ExpectedQuoted", bytes |-> <<>>]
         ELSE IF ~CanRemove0(Pop(s))
              THEN [panic |-> "RemoveOutOfRange", bytes |-> <<>>]
              ELSE [panic |-> "", bytes |-> Remove0(Pop(s))]
    ELSE IF FromHex(s).ok
         THEN [panic |-> "", bytes |-> FromHex(s).bytes]
         ELSE [panic |-> "HexError", bytes |-> <<>>]

\* TestCase::consume_bytes
ConsumeBytes(attrs, key) ==
    LET r == ConsumeString(attrs, key)
    IN  IF r.panic # "" THEN r
        ELSE AccResult(r.attrs, DecodeBytes(r.val).panic, TRUE, r.val)

Digits == <<"0", "1", "2", "3", "4", "5", "6", "7", "8", "9">>
IsDigit(c) == \E i \in 1..10 : Digits[i] = c

\* Whether str::parse::<usize> returns Ok: an optional '+', then one digit
\* or more. The values of the model are too short to overflow a usize.
ParseUsizeOk(s) ==
    LET d == IF StartsWith(s, "+") THEN Remove0(s) ELSE s
    IN  Len(d) > 0 /\ \A i \in 1..Len(d) : IsDigit(d[i])

\* TestCase::consume_usize
ConsumeUsize(attrs, key) ==
    LET r == ConsumeString(attrs, key)
    IN  IF r.panic # "" THEN r
        ELSE IF ParseUsizeOk(r.val) THEN r
             ELSE AccResult(r.attrs, "ParseIntError", TRUE, r.val)

\* The names consume_digest_alg knows.
DigestNames ==
    { <<"S", "H", "A", "1">>,
      <<"S", "H", "A", "2", "2", "4">>,
      <<"S", "H", "A", "2", "5", "6">>,
      <<"S", "H", "A", "3", "8", "4">>,
      <<"S", "H", "A", "5", "1", "2">>,
      <<"S", "H", "A", "5", "1", "2", "_", "2", "5", "6">> }

\* TestCase::consume_digest_alg
ConsumeDigestAlg(attrs, key) ==
    LET r == ConsumeString(attrs, key)
    IN  IF r.panic # "" THEN r
        ELSE IF r.val \in DigestNames THEN r
             ELSE AccResult(r.attrs, "UnsupportedDigest", TRUE, r.val)

\* The accessors a callback may call.
Accessors == {"optional_string", "string", "bytes", "usize", "digest_alg"}

\* One accessor call.
Access(acc, attrs, key) ==
    CASE acc = "optional_string" -> ConsumeOptionalString(attrs, key)
      [] acc = "string" -> ConsumeString(attrs, key)
      [] acc = "bytes" -> ConsumeBytes(attrs, key)
      [] acc = "usize" -> ConsumeUsize(attrs, key)
      [] acc = "digest_alg" -> ConsumeDigestAlg(attrs, key)

\* The panics an accessor raises.
AccessorPanics ==
    {"AlreadyConsumed", "NoAttribute", "ExpectedQuoted", "RemoveOutOfRange",
     "HexError", "ParseIntError", "UnsupportedDigest"}

\* ------------------------------------------------------ parse_test_case

\* What lines.next() gives: a line, or None at the end of the file.
SomeLine(text) == [none |-> FALSE, text |-> text]
NoLine == [none |-> TRUE, text |-> <<>>]

\* parse_test_case with lines 366-367 left out: the brackets stay in the
\* section.
SectionKeepBrackets(line) == <<>> \o line

\* The section a marker line names: current_section after truncate,
\* push_str, pop and remove(0).
SectionOf(line) == Remove0(Pop(<<>> \o line))

\* What one turn of the loop of parse_test_case does with the line read:
\* ret is "loop" (read on), "Some" (return the case), "None" (return None)
\* or "panic" (msg says which one).
ParseOut(ret, attrs, first, section, msg) ==
    [ret |-> ret, attributes |-> attrs, is_first_line |-> first,
     section |-> section, msg |-> msg]

\* parse_test_case with the check of line 374 left out: a content line
\* without " = " is passed over like a comment.
ParseStepSkipNoSep(next, attrs, first, section) ==
    IF next.none
    THEN IF first THEN ParseOut("None", attrs, first, section, "")
         ELSE ParseOut("Some", attrs, first, section, "")
    ELSE LET line == next.text IN
         IF Len(line) = 0
         THEN IF ~first THEN ParseOut("Some", attrs, first, section, "")
              ELSE ParseOut("loop", attrs, first, section, "")
         ELSE IF StartsWith(line, "#")
         THEN ParseOut("loop", attrs, first, section, "")
         ELSE IF StartsWith(line, "[")
         THEN IF ~first
              THEN ParseOut("panic", attrs, first, section, "AssertFirstLine")
              ELSE IF ~EndsWith(line, "]")
              THEN ParseOut("panic", attrs, first, section, "AssertEndsWith")
              ELSE ParseOut("loop", attrs, first, SectionOf(line), "")
         ELSE LET parts == SplitN2(line) IN
              IF Len(parts) # 2
              THEN ParseOut("loop", attrs, FALSE, section, "")
              ELSE IF Len(Trim(parts[2])) = 0
              THEN ParseOut("panic", attrs, FALSE, section, "AssertValueLen")
              ELSE ParseOut("loop",
                            Append(attrs,
                                   Attr(Trim(parts[1]), Trim(parts[2]), FALSE)),
                            FALSE, section, "")

\* parse_test_case with the arm of line 359 taken for a blank line too: a
\* comment ends the pending case as a blank line does.
ParseStepCommentEnds(next, attrs, first, section) ==
    IF next.none
    THEN IF first THEN ParseOut("None", attrs, first, section, "")
         ELSE ParseOut("Some", attrs, first, section, "")
    ELSE LET line == next.text IN
         IF Len(line) = 0 \/ StartsWith(line, "#")
         THEN IF ~first THEN ParseOut("Some", attrs, first, section, "")
              ELSE ParseOut("loop", attrs, first, section, "")
         ELSE IF StartsWith(line, "[")
         THEN IF ~first
              THEN ParseOut("panic", attrs, first, section, "AssertFirstLine")
              ELSE IF ~EndsWith(line, "]")
              THEN ParseOut("panic", attrs, first, section, "AssertEndsWith")
              ELSE ParseOut("loop", attrs, first, SectionOf(line), "")
         ELSE LET parts == SplitN2(line) IN
              IF Len(parts) # 2
              THEN ParseOut("panic", attrs, FALSE, section, "SyntaxError")
              ELSE IF Len(Trim(parts[2])) = 0
              THEN ParseOut("panic", attrs, FALSE, section, "AssertValueLen")
              ELSE ParseOut("loop",
                            Append(attrs,
                                   Attr(Trim(parts[1]), Trim(parts[2]), FALSE)),
                            FALSE, section, "")

\* parse_test_case with the test of is_first_line at a blank line (352)
\* left out: every blank line ends the case.
ParseStepBlankEnds(next, attrs, first, section) ==
    IF next.none
    THEN IF first THEN ParseOut("None", attrs, first, section, "")
         ELSE ParseOut("Some", attrs, first, section, "")
    ELSE LET line == next.text IN
         IF Len(line) = 0
         THEN ParseOut("Some", attrs, first, section, "")
         ELSE IF StartsWith(line, "#")
         THEN ParseOut("loop", attrs, first, section, "")
         ELSE IF StartsWith(line, "[")
         THEN IF ~first
              THEN ParseOut("panic", attrs, first, section, "AssertFirstLine")
              ELSE IF ~EndsWith(line, "]")
              THEN ParseOut("panic", attrs, first, section, "AssertEndsWith")
              ELSE ParseOut("loop", attrs, first, SectionOf(line), "")
         ELSE LET parts == SplitN2(line) IN
              IF Len(parts) # 2
              THEN ParseOut("panic", attrs, FALSE, section, "SyntaxError")
              ELSE IF Len(Trim(parts[2])) = 0
              THEN ParseOut("panic", attrs, FALSE, section, "AssertValueLen")
              ELSE ParseOut("loop",
                            Append(attrs,
                                   Attr(Trim(parts[1]), Trim(parts[2]), FALSE)),
                            FALSE, section, "")

\* parse_test_case with the assertion of line 362 left out: a marker is
\* taken wherever it stands.
ParseStepMarkerAnywhere(next, attrs, first, section) ==
    IF next.none
    THEN IF first THEN ParseOut("None", attrs, first, section, "")
         ELSE ParseOut("Some", attrs, first, section, "")
    ELSE LET line == next.text IN
         IF Len(line) = 0
         THEN IF ~first THEN ParseOut("Some", attrs, first, section, "")
              ELSE ParseOut("loop", attrs, first, section, "")
         ELSE IF StartsWith(line, "#")
         THEN ParseOut("loop", attrs, first, section, "")
         ELSE IF StartsWith(line, "[")
         THEN IF ~EndsWith(line, "]")
              THEN ParseOut("panic", attrs, first, section, "AssertEndsWith")
              ELSE ParseOut("loop", attrs, first, SectionOf(line), "")
         ELSE LET parts == SplitN2(line) IN
              IF Len(parts) # 2
              THEN ParseOut("panic", attrs, FALSE, section, "SyntaxError")
              ELSE IF Len(Trim(parts[2])) = 0
              THEN ParseOut("panic", attrs, FALSE, section, "AssertValueLen")
              ELSE ParseOut("loop",
                            Append(attrs,
                                   Attr(Trim(parts[1]), Trim(parts[2]), FALSE)),
                            FALSE, section, "")

\* parse_test_case that goes on asking for a line when lines.next() gives
\* None and no attribute is pending.
ParseStepEofLoops(next, attrs, first, section) ==
    IF next.none
    THEN IF first THEN ParseOut("loop", attrs, first, section, "")
         ELSE ParseOut("Some", attrs, first, section, "")
    ELSE LET line == next.text IN
         IF Len(line) = 0
         THEN IF ~first THEN ParseOut("Some", attrs, first, section, "")
              ELSE ParseOut("loop", attrs, first, section, "")
         ELSE IF StartsWith(line, "#")
         THEN ParseOut("loop", attrs, first, section, "")
         ELSE IF StartsWith(line, "[")
         THEN IF ~first
              THEN ParseOut("panic", attrs, first, section, "AssertFirstLine")
              ELSE IF ~EndsWith(line, "]")
              THEN ParseOut("panic", attrs, first, section, "AssertEndsWith")
              ELSE ParseOut("loop", attrs, first, SectionOf(line), "")
         ELSE LET parts == SplitN2(line) IN
              IF Len(parts) # 2
              THEN ParseOut("panic", attrs, FALSE, section, "SyntaxError")
              ELSE IF Len(Trim(parts[2])) = 0
              THEN ParseOut("panic", attrs, FALSE, section, "AssertValueLen")
              ELSE ParseOut("loop",
                            Append(attrs,
                                   Attr(Trim(parts[1]), Trim(parts[2]), FALSE)),
                            FALSE, section, "")

\* One turn of the loop of parse_test_case.
ParseStep(next, attrs, first, section) ==
    IF next.none
    THEN IF first THEN ParseOut("None", attrs, first, section, "")
         ELSE ParseOut("Some", attrs, first, section, "")
    ELSE LET line == next.text IN
         IF Len(line) = 0
         THEN IF ~first THEN ParseOut("Some", attrs, first, section, "")
              ELSE ParseOut("loop", attrs, first, section, "")
         ELSE IF StartsWith(line, "#")
         THEN ParseOut("loop", attrs, first, section, "")
         ELSE IF StartsWith(line, "[")
         THEN IF ~first
              THEN ParseOut("panic", attrs, first, section, "AssertFirstLine")
              ELSE IF ~EndsWith(line, "]")
              THEN ParseOut("panic", attrs, first, section, "AssertEndsWith")
              ELSE ParseOut("loop", attrs, first, SectionOf(line), "")
         ELSE LET parts == SplitN2(line) IN
              IF Len(parts) # 2
              THEN ParseOut("panic", attrs, FALSE, section, "SyntaxError")
              ELSE IF Len(Trim(parts[2])) = 0
              THEN ParseOut("panic", attrs, FALSE, section, "AssertValueLen")
              ELSE ParseOut("loop",
                            Append(attrs,
                                   Attr(Trim(parts[1]), Trim(parts[2]), FALSE)),
                            FALSE, section, "")

\* The panics that abort a scan: those of parse_test_case and the I/O
\* errors unwrapped in from_file and parse_test_case.
GrammarPanics ==
    {"SyntaxError", "AssertFirstLine", "AssertEndsWith", "AssertValueLen"}
FatalPanics == GrammarPanics \cup {"IoError"}

\* ------------------------------------------------------------ from_file

\* The messages of the per-case result of from_file; "" stands for Ok(()).
MsgUnconsumed == "Test didn't consume all attributes."
MsgReturnedErr == "Test returned Err(error::Unspecified)."
MsgPanicked == "Test panicked."

\* The match of from_file with the test of lines 262-263 left out: a
\* callback that returns Ok(()) passes whatever it consumed.
ClassifyNoFlags(cb, attrs) ==
    IF cb = "Ok" THEN ""
    ELSE IF cb = "Err" THEN MsgReturnedErr
         ELSE MsgPanicked

\* The match of from_file on what the callback did: cb is "Ok", "Err" or
\* "Panic".
Classify(cb, attrs) ==
    IF cb = "Ok"
    THEN IF ~\E i \in 1..Len(attrs) : ~attrs[i].consumed
         THEN ""
         ELSE MsgUnconsumed
    ELSE IF cb = "Err" THEN MsgReturnedErr
         ELSE MsgPanicked

\* The text " (unconsumed)".
UnconsumedStr ==
    <<" ", "(", "u", "n", "c", "o", "n", "s", "u", "m", "e", "d", ")">>

\* The line of an attribute with the test of line 279 inverted: the marker
\* goes to the consumed attributes.
DumpLineInverted(a) ==
    a.name \o (IF a.consumed THEN UnconsumedStr ELSE <<>>)
           \o <<" ", "=", " ">> \o a.value

\* println!("{}{} = {}", name, consumed_str, value) for one attribute.
DumpLine(a) ==
    a.name \o (IF a.consumed THEN <<>> ELSE UnconsumedStr)
           \o <<" ", "=", " ">> \o a.value

\* What from_file prints for a case whose result is Err(msg): the header
\* (path and message), then one line for each attribute.
Dump(msg, attrs) ==
    [header |-> <<"path", msg>>,
     lines |-> [i \in 1..Len(attrs) |-> DumpLine(attrs[i])]]

\* Nothing printed.
NoDump == [header |-> <<>>, lines |-> <<>>]

\* ------------------------------------------------------------------ state

VARIABLES
    \* from_file and parse_test_case
    pc,               \* where from_file is: "open", "parse", "call",
                      \* "callback", "handle", "handled", "exhausted", "done"
    nread,            \* lines read from the file so far
    eof,              \* lines.next() has returned None
    current_section,  \* from_file's current_section
    attributes,       \* parse_test_case's attributes
    is_first_line,    \* parse_test_case's is_first_line
    test_case,        \* the attributes of from_file's test_case
    failed,           \* from_file's failed
    result,           \* from_file's per-case result: "" for Ok(()), or Err's message
    printed,          \* what this turn of the loop printed
    nblocks,          \* diagnostic blocks printed since the start of the run
    runResult,        \* how from_file ended: "running", "Ok", or the panic
    \* the callback
    cbSection,        \* the section the callback was called with
    cbResult,         \* how the callback ended: "none", "Ok", "Err", "Panic"
    panicMsg,         \* the panic that ended the callback, "" when none
    ncalls,           \* accessor calls of this invocation
    lastKey,          \* key of the last accessor call
    lastSome,         \* whether that call got an attribute's value
    lastVal,          \* the raw value it got
    \* history
    emitted,          \* cases parse_test_case has returned
    invoked,          \* the cases the callback was invoked on, in order
    lastMarker,       \* text enclosed by the last marker line accepted
    accFailed,        \* an accessor has panicked during this run
    reads,            \* per attribute of test_case: times its value was returned
    lastHadRead,      \* the last accessor call asked for a key already returned
    nfailed,          \* cases that did not pass, since the start of the run
    noSepRead,        \* a content line without " = " has been read
    lastNext,         \* what lines.next() gave last
    lastFirst,        \* is_first_line when it gave it
    contentRead,      \* a line not blank, nor starting with '#' or '[', has been read
    nattr,            \* lines read that pushed an attribute
    \* rand::FixedSliceSequenceRandom
    bytes,            \* the vectors
    current,          \* the cursor
    fpc,              \* per thread, where fill is: "idle", "read", "copied"
    fcur,             \* per thread, fill's local current
    dest,             \* per thread, the destination buffer of its fill call
    fres,             \* per thread, how its last fill call ended
    alive,            \* "alive", "dropped" or "dropPanicked"
    nfills,           \* fill calls begun
    returned,         \* the buffers filled by the calls that returned Ok
    \* one call of consume_bytes
    bcase,            \* the attributes of the TestCase it is called on
    bout,             \* how the call ended, and the bytes it returned
    \* two threads on one FixedSliceSequenceRandom
    exclusive,        \* the callers run fill under exclusive access
    ftmp,             \* per thread, the cursor value its increment loaded
    \* parse_test_case over one whole file
    file,             \* the lines of the file
    cases             \* the cases parse_test_case has returned, in order

dvars == <<pc, nread, eof, current_section, attributes, is_first_line, test_case,
           failed, result, printed, nblocks, runResult, cbSection, cbResult,
           panicMsg, ncalls, lastKey, lastSome, lastVal, emitted, invoked,
           lastMarker, accFailed, reads, lastHadRead, nfailed,
           noSepRead,
                   lastNext, lastFirst, contentRead, nattr>>
rvars == <<bytes, current, fpc, fcur, dest, fres, alive, nfills, returned>>
bvars == <<bcase, bout>>
cvars == <<exclusive, ftmp>>
pvars == <<file, cases>>
ovars == <<bvars, cvars, pvars>>
vars == <<dvars, rvars, ovars>>

\* The driver before from_file opens the file.
DriverInit ==
    /\ pc = "open"
    /\ nread = 0
    /\ eof = FALSE
    /\ current_section = <<>>
    /\ attributes = <<>>
    /\ is_first_line = TRUE
    /\ test_case = <<>>
    /\ failed = FALSE
    /\ result = ""
    /\ printed = NoDump
    /\ nblocks = 0
    /\ runResult = "running"
    /\ cbSection = <<>>
    /\ cbResult = "none"
    /\ panicMsg = ""
    /\ ncalls = 0
    /\ lastKey = <<>>
    /\ lastSome = FALSE
    /\ lastVal = <<>>
    /\ emitted = 0
    /\ invoked = <<>>
    /\ lastMarker = <<>>
    /\ accFailed = FALSE
    /\ reads = <<>>
    /\ lastHadRead = FALSE
    /\ nfailed = 0
    /\ noSepRead = FALSE
    /\ lastNext = NoLine
    /\ lastFirst = TRUE
    /\ contentRead = FALSE
    /\ nattr = 0

\* The threads that may call fill.
Threads == {1, 2}

\* A random source nobody uses.
RandIdle ==
    /\ bytes = <<>>
    /\ current = 0
    /\ fpc = [t \in Threads |-> "idle"]
    /\ fcur = [t \in Threads |-> 0]
    /\ dest = [t \in Threads |-> <<>>]
    /\ fres = [t \in Threads |-> "none"]
    /\ alive = "alive"
    /\ nfills = 0
    /\ returned = <<>>

\* consume_bytes before it is called.
NotCalled == [called |-> FALSE, panic |-> "", bytes |-> <<>>]

\* No TestCase set aside for a call of consume_bytes.
BytesIdle ==
    /\ bcase = <<>>
    /\ bout = NotCalled

\* No second thread on the random source.
ConcIdle ==
    /\ exclusive = TRUE
    /\ ftmp = [t \in Threads |-> 0]

\* No file fixed in advance, and no record of the cases returned.
FileIdle ==
    /\ file = <<>>
    /\ cases = <<>>

Init == DriverInit /\ RandIdle /\ BytesIdle /\ ConcIdle /\ FileIdle

\* ---------------------------------------------------------------- actions

\* The parts of the state a parser turn leaves alone.
CallbackVarsUnchanged ==
    UNCHANGED <<test_case, failed, result, printed, nblocks, cbSection,
                cbResult, panicMsg, ncalls, lastKey, lastSome, lastVal,
                invoked, accFailed, reads, lastHadRead, nfailed>>

\* from_file, lines 247-252: the file opens, and the loop calls
\* parse_test_case for the first time.
OpenOk ==
    /\ pc = "open"
    /\ pc' = "parse"
    /\ UNCHANGED <<nread, eof, current_section, attributes, is_first_line,
                   runResult, emitted, lastMarker, noSepRead,
                   lastNext, lastFirst, contentRead, nattr>>
    /\ CallbackVarsUnchanged
    /\ UNCHANGED <<rvars, ovars>>

\* from_file, line 248: File::open fails and unwrap panics.
OpenErr ==
    /\ pc = "open"
    /\ pc' = "done"
    /\ runResult' = "IoError"
    /\ UNCHANGED <<nread, eof, current_section, attributes, is_first_line,
                   emitted, lastMarker, noSepRead,
                   lastNext, lastFirst, contentRead, nattr>>
    /\ CallbackVarsUnchanged
    /\ UNCHANGED <<rvars, ovars>>

\* A loop that goes on to the next line when parse_test_case panics.
ParseTurnRecover(out) ==
    /\ attributes' = out.attributes
    /\ is_first_line' = out.is_first_line
    /\ current_section' = out.section
    /\ IF out.ret = "loop"
       THEN /\ pc' = "parse"
            /\ UNCHANGED <<runResult, emitted, test_case>>
       ELSE IF out.ret = "Some"
       THEN /\ pc' = "call"
            /\ test_case' = out.attributes
            /\ emitted' = emitted + 1
            /\ UNCHANGED runResult
       ELSE IF out.ret = "None"
       THEN /\ pc' = "exhausted"
            /\ UNCHANGED <<runResult, emitted, test_case>>
       ELSE /\ pc' = "parse"
            /\ UNCHANGED <<runResult, emitted, test_case>>
    /\ UNCHANGED <<failed, result, printed, nblocks, cbSection, cbResult,
                   panicMsg, ncalls, lastKey, lastSome, lastVal, invoked,
                   accFailed, reads, lastHadRead, nfailed>>

\* What a turn of the parser's loop leads to, given what it returned.
ParseTurn(out) ==
    /\ attributes' = out.attributes
    /\ is_first_line' = out.is_first_line
    /\ current_section' = out.section
    /\ IF out.ret = "loop"
       THEN /\ pc' = "parse"
            /\ UNCHANGED <<runResult, emitted, test_case>>
       ELSE IF out.ret = "Some"
       THEN /\ pc' = "call"
            /\ test_case' = out.attributes
            /\ emitted' = emitted + 1
            /\ UNCHANGED runResult
       ELSE IF out.ret = "None"
       THEN /\ pc' = "exhausted"
            /\ UNCHANGED <<runResult, emitted, test_case>>
       ELSE /\ pc' = "done"
            /\ runResult' = out.msg
            /\ UNCHANGED <<emitted, test_case>>
    /\ UNCHANGED <<failed, result, printed, nblocks, cbSection, cbResult,
                   panicMsg, ncalls, lastKey, lastSome, lastVal, invoked,
                   accFailed, reads, lastHadRead, nfailed>>

\* parse_test_case, lines 326-389, on the line `line` that lines.next()
\* gives.
ReadLineOf(line) ==
    LET out == ParseStep(SomeLine(line), attributes, is_first_line,
                         current_section)
    IN  /\ nread' = nread + 1
        /\ eof' = eof
        /\ lastMarker' =
             IF is_first_line /\ StartsWith(line, "[")
                /\ EndsWith(line, "]")
             THEN SubSeq(line, 2, Len(line) - 1)
             ELSE lastMarker
        /\ noSepRead' =
             (noSepRead
              \/ (Len(line) > 0 /\ ~StartsWith(line, "#")
                  /\ ~StartsWith(line, "[") /\ SepAt(line) = {}))
        /\ lastNext' = SomeLine(line)
        /\ lastFirst' = is_first_line
        /\ contentRead' =
             (contentRead
              \/ (Len(line) > 0 /\ ~StartsWith(line, "#")
                  /\ ~StartsWith(line, "[")))
        /\ nattr' = IF Len(out.attributes) > Len(attributes) THEN nattr + 1
                     ELSE nattr
        /\ ParseTurn(out)

\* parse_test_case, lines 326-389, on a line of the file, which is one of
\* `lines`.
ReadLineIn(lines) ==
    /\ pc = "parse"
    /\ ~eof
    /\ nread < MaxLines
    /\ \E line \in lines :
         /\ Len(ParseStep(SomeLine(line), attributes, is_first_line,
                          current_section).attributes) <= MaxAttrs
         /\ ReadLineOf(line)
    /\ UNCHANGED <<rvars, ovars>>

\* parse_test_case, lines 326-389, on a line of the file.
ReadLine == ReadLineIn(LineSet)

\* parse_test_case, lines 327-348, at the end of the file.
ReadEof ==
    /\ pc = "parse"
    /\ ParseTurn(ParseStep(NoLine, attributes, is_first_line,
                           current_section))
    /\ eof' = TRUE
    /\ lastNext' = NoLine
    /\ lastFirst' = is_first_line
    /\ UNCHANGED <<nread, lastMarker, noSepRead, contentRead, nattr>>
    /\ UNCHANGED <<rvars, ovars>>

\* parse_test_case, line 329: reading a line fails and unwrap panics.
ReadErr ==
    /\ pc = "parse"
    /\ ~eof
    /\ nread < MaxLines
    /\ pc' = "done"
    /\ runResult' = "IoError"
    /\ UNCHANGED <<nread, eof, current_section, attributes, is_first_line,
                   emitted, lastMarker, noSepRead,
                   lastNext, lastFirst, contentRead, nattr>>
    /\ CallbackVarsUnchanged
    /\ UNCHANGED <<rvars, ovars>>

\* The parts of the state the callback leaves alone: what the parser and
\* the loop of from_file own.
DriverVarsUnchanged ==
    UNCHANGED <<nread, eof, current_section, attributes, is_first_line,
                failed, result, printed, nblocks, emitted, lastMarker,
                nfailed, noSepRead,
                   lastNext, lastFirst, contentRead, nattr>>

\* from_file, lines 256-258: the callback is called with the section and
\* the case parse_test_case returned.
CallbackStart ==
    /\ pc = "call"
    /\ pc' = "callback"
    /\ cbSection' = current_section
    /\ invoked' = Append(invoked, emitted)
    /\ cbResult' = "none"
    /\ panicMsg' = ""
    /\ ncalls' = 0
    /\ lastKey' = <<>>
    /\ lastSome' = FALSE
    /\ lastVal' = <<>>
    /\ reads' = [i \in 1..Len(test_case) |-> 0]
    /\ lastHadRead' = FALSE
    /\ UNCHANGED <<test_case, runResult, accFailed>>
    /\ DriverVarsUnchanged
    /\ UNCHANGED <<rvars, ovars>>

\* std::panic::catch_unwind left out of from_file: a panic of the callback
\* ends the run.
Uncaught(msg) ==
    /\ pc' = "done"
    /\ cbResult' = "Panic"
    /\ panicMsg' = msg
    /\ runResult' = msg

\* from_file, lines 256-259: std::panic::catch_unwind turns a panic of the
\* callback into the Err(_) the match of line 271 handles.
CatchUnwind(msg) ==
    /\ pc' = "handle"
    /\ cbResult' = "Panic"
    /\ panicMsg' = msg
    /\ runResult' = runResult

\* The callback calls an accessor of the test case. An accessor that panics
\* unwinds the callback.
CallAccessor ==
    /\ pc = "callback"
    /\ ncalls < MaxCalls
    /\ \E acc \in Accessors, key \in Keys :
         LET r == Access(acc, test_case, key)
             i == FirstNamed(test_case, key)
         IN  /\ test_case' = r.attrs
             /\ ncalls' = ncalls + 1
             /\ lastKey' = key
             /\ lastSome' = (r.some /\ r.panic = "")
             /\ lastVal' = r.val
             /\ reads' = IF r.some THEN [reads EXCEPT ![i] = @ + 1]
                         ELSE reads
             /\ lastHadRead' =
                  (\E j \in 1..Len(test_case) :
                      test_case[j].name = key /\ reads[j] > 0)
             /\ IF r.panic # ""
                THEN /\ CatchUnwind(r.panic)
                     /\ accFailed' = TRUE
                ELSE /\ UNCHANGED <<pc, cbResult, panicMsg, runResult,
                                    accFailed>>
    /\ UNCHANGED <<cbSection, invoked>>
    /\ DriverVarsUnchanged
    /\ UNCHANGED <<rvars, ovars>>

\* The callback returns Ok(()).
CallbackReturnOk ==
    /\ pc = "callback"
    /\ pc' = "handle"
    /\ cbResult' = "Ok"
    /\ UNCHANGED <<test_case, runResult, cbSection, panicMsg, ncalls,
                   lastKey, lastSome, lastVal, invoked, accFailed, reads,
                   lastHadRead>>
    /\ DriverVarsUnchanged
    /\ UNCHANGED <<rvars, ovars>>

\* The callback returns Err(error::Unspecified).
CallbackReturnErr ==
    /\ pc = "callback"
    /\ pc' = "handle"
    /\ cbResult' = "Err"
    /\ UNCHANGED <<test_case, runResult, cbSection, panicMsg, ncalls,
                   lastKey, lastSome, lastVal, invoked, accFailed, reads,
                   lastHadRead>>
    /\ DriverVarsUnchanged
    /\ UNCHANGED <<rvars, ovars>>

\* The callback panics by itself.
CallbackPanic ==
    /\ pc = "callback"
    /\ CatchUnwind("CallbackPanic")
    /\ UNCHANGED <<test_case, cbSection, ncalls, lastKey, lastSome, lastVal,
                   invoked, accFailed, reads, lastHadRead>>
    /\ DriverVarsUnchanged
    /\ UNCHANGED <<rvars, ovars>>

\* from_file with line 275 written as an assignment of the last result: a
\* case that passes clears the flag.
FailedLast(f, res) == res # ""

\* from_file, lines 266 and 275: the failed flag after a case whose result
\* has message res ("" for Ok(())).
FailedAfter(f, res) == f \/ res # ""

\* from_file, lines 260-282: the case's result, the failed flag and the
\* diagnostic block.
HandleResult ==
    /\ pc = "handle"
    /\ pc' = "handled"
    /\ result' = Classify(cbResult, test_case)
    /\ failed' = FailedAfter(failed, result')
    /\ printed' = IF result' # "" THEN Dump(result', test_case) ELSE NoDump
    /\ nblocks' = IF result' # "" THEN nblocks + 1 ELSE nblocks
    /\ nfailed' = IF cbResult = "Ok"
                     /\ \A i \in 1..Len(test_case) : test_case[i].consumed
                  THEN nfailed
                  ELSE nfailed + 1
    /\ UNCHANGED <<nread, eof, current_section, attributes, is_first_line,
                   test_case, runResult, cbSection, cbResult, panicMsg,
                   ncalls, lastKey, lastSome, lastVal, emitted, invoked,
                   lastMarker, accFailed, reads, lastHadRead, noSepRead,
                   lastNext, lastFirst, contentRead, nattr>>
    /\ UNCHANGED <<rvars, ovars>>

\* from_file with the loop left at the first failed case.
LoopTargetStopOnFail == IF failed THEN "exhausted" ELSE "parse"

\* from_file, line 254: where the loop goes once a case is handled: to the
\* next call of parse_test_case, whether the case failed or passed.
LoopTarget == "parse"

\* The vector of a call of parse_test_case that keeps the attributes of
\* the case returned before, flags included.
StaleAttributes == test_case

\* parse_test_case, line 323: each call begins with a new, empty vector.
FreshAttributes == <<>>

\* from_file, lines 283 and 254: the case is dropped and the loop calls
\* parse_test_case again, which starts with no attribute (lines 323-325).
NextCase ==
    /\ pc = "handled"
    /\ pc' = LoopTarget
    /\ attributes' = FreshAttributes
    /\ is_first_line' = TRUE
    /\ test_case' = <<>>
    /\ result' = ""
    /\ printed' = NoDump
    /\ cbResult' = "none"
    /\ panicMsg' = ""
    /\ ncalls' = 0
    /\ lastKey' = <<>>
    /\ lastSome' = FALSE
    /\ lastVal' = <<>>
    /\ reads' = <<>>
    /\ lastHadRead' = FALSE
    /\ UNCHANGED <<nread, eof, current_section, failed, nblocks, runResult,
                   cbSection, emitted, invoked, lastMarker, accFailed,
                   nfailed, noSepRead,
                   lastNext, lastFirst, contentRead, nattr>>
    /\ UNCHANGED <<rvars, ovars>>

\* from_file, lines 285-288: the file is exhausted.
Finish ==
    /\ pc = "exhausted"
    /\ pc' = "done"
    /\ runResult' = IF failed THEN "TestFailed" ELSE "Ok"
    /\ UNCHANGED <<nread, eof, current_section, attributes, is_first_line,
                   emitted, lastMarker, noSepRead,
                   lastNext, lastFirst, contentRead, nattr>>
    /\ CallbackVarsUnchanged
    /\ UNCHANGED <<rvars, ovars>>

Next ==
    \/ OpenOk
    \/ OpenErr
    \/ ReadLine
    \/ ReadEof
    \/ ReadErr
    \/ CallbackStart
    \/ CallAccessor
    \/ CallbackReturnOk
    \/ CallbackReturnErr
    \/ CallbackPanic
    \/ HandleResult
    \/ NextCase
    \/ Finish

Spec == Init /\ [][Next]_vars

\* The lines of the files whose runs are followed to their end: blank,
\* comment, marker, attribute, and a line without " = ".
LiveLineSet ==
    { <<>>,
      <<"#", "c">>,
      <<"[", "s", "]">>,
      <<"K", " ", "=", " ", "0", "a">>,
      <<"K", "=", "7">> }

\* from_file on a file of those lines.
LiveNext ==
    \/ OpenOk
    \/ OpenErr
    \/ ReadLineIn(LiveLineSet)
    \/ ReadEof
    \/ ReadErr
    \/ CallbackStart
    \/ CallAccessor
    \/ CallbackReturnOk
    \/ CallbackReturnErr
    \/ CallbackPanic
    \/ HandleResult
    \/ NextCase
    \/ Finish

\* from_file is sequential code: as long as it has a step to take, it takes
\* one. The file is finite and the callback returns or panics.
SpecLive == Init /\ [][LiveNext]_vars /\ WF_vars(LiveNext)

\* ------------------------------------- rand::FixedSliceSequenceRandom

\* The values of a byte of a vector.
Byte == {0, 1}

\* What a destination buffer holds before fill writes to it.
Unwritten == 255

\* The vectors of length n.
VectorsOfLen(n) == [1..n -> Byte]

\* The vectors a source may hold.
Vector == UNION {VectorsOfLen(n) : n \in 0..MaxVecLen}

\* The sequences of vectors a source may be built with.
VectorSeqs == UNION {[1..n -> Vector] : n \in 0..MaxVectors}

\* A source built with `current` initialized to zero, as the documentation
\* of the struct requires, and not used yet.
RandInit ==
    /\ bytes \in VectorSeqs
    /\ current = 0
    /\ fpc = [t \in Threads |-> "idle"]
    /\ fcur = [t \in Threads |-> 0]
    /\ dest = [t \in Threads |-> <<>>]
    /\ fres = [t \in Threads |-> "none"]
    /\ alive = "alive"
    /\ nfills = 0
    /\ returned = <<>>

\* A source just built, and a driver that does not run.
InitRand == DriverInit /\ RandInit /\ BytesIdle /\ ConcIdle /\ FileIdle

\* fill, line 455, with the increment left out.
CursorStuck(c) == c

\* fill, line 455: the cursor after a fill.
CursorAfterFill(c) == c + 1

\* drop with an assertion that only rejects a cursor past the end.
DropAssertAtMost(cur, n) == cur <= n

\* drop, line 464: the assertion that fill was called once per vector.
DropAssert(cur, n) == cur = n

\* fill, line 450: thread t calls fill with a buffer of some length and
\* reads the cursor.
FillRead(t) ==
    /\ alive = "alive"
    /\ fpc[t] = "idle"
    /\ nfills < MaxFills
    /\ \E len \in 0..MaxVecLen :
         dest' = [dest EXCEPT ![t] = [i \in 1..len |-> Unwritten]]
    /\ fcur' = [fcur EXCEPT ![t] = current]
    /\ fpc' = [fpc EXCEPT ![t] = "read"]
    /\ fres' = [fres EXCEPT ![t] = "none"]
    /\ nfills' = nfills + 1
    /\ UNCHANGED <<bytes, current, alive, returned>>
    /\ UNCHANGED <<dvars, ovars>>

\* A fill that advances the cursor before it indexes and copies, so that
\* a call that panics has advanced it too.
FillCopyCountsFailure(t) ==
    /\ fpc[t] = "read"
    /\ IF fcur[t] >= Len(bytes)
       THEN /\ fres' = [fres EXCEPT ![t] = "IndexPanic"]
            /\ fpc' = [fpc EXCEPT ![t] = "idle"]
            /\ UNCHANGED dest
       ELSE IF Len(bytes[fcur[t] + 1]) # Len(dest[t])
       THEN /\ fres' = [fres EXCEPT ![t] = "LengthPanic"]
            /\ fpc' = [fpc EXCEPT ![t] = "idle"]
            /\ UNCHANGED dest
       ELSE /\ dest' = [dest EXCEPT ![t] = bytes[fcur[t] + 1]]
            /\ fpc' = [fpc EXCEPT ![t] = "copied"]
            /\ UNCHANGED fres
    /\ current' = IF fpc'[t] = "idle" THEN current + 1 ELSE current
    /\ UNCHANGED <<bytes, fcur, alive, nfills, returned>>
    /\ UNCHANGED <<dvars, ovars>>

\* fill, lines 451-452: the vector at the cursor is indexed, which panics
\* past the end, and copied into the buffer, which panics when the lengths
\* differ.
FillCopy(t) ==
    /\ fpc[t] = "read"
    /\ IF fcur[t] >= Len(bytes)
       THEN /\ fres' = [fres EXCEPT ![t] = "IndexPanic"]
            /\ fpc' = [fpc EXCEPT ![t] = "idle"]
            /\ UNCHANGED dest
       ELSE IF Len(bytes[fcur[t] + 1]) # Len(dest[t])
       THEN /\ fres' = [fres EXCEPT ![t] = "LengthPanic"]
            /\ fpc' = [fpc EXCEPT ![t] = "idle"]
            /\ UNCHANGED dest
       ELSE /\ dest' = [dest EXCEPT ![t] = bytes[fcur[t] + 1]]
            /\ fpc' = [fpc EXCEPT ![t] = "copied"]
            /\ UNCHANGED fres
    /\ UNCHANGED <<bytes, current, fcur, alive, nfills, returned>>
    /\ UNCHANGED <<dvars, ovars>>

\* fill, lines 455-456: the cursor is incremented and fill returns Ok(()).
FillInc(t) ==
    /\ fpc[t] = "copied"
    /\ current' = CursorAfterFill(current)
    /\ fres' = [fres EXCEPT ![t] = "Ok"]
    /\ fpc' = [fpc EXCEPT ![t] = "idle"]
    /\ returned' = Append(returned, dest[t])
    /\ UNCHANGED <<bytes, fcur, dest, alive, nfills>>
    /\ UNCHANGED <<dvars, ovars>>

\* drop, lines 461-465: the source is destroyed, while no fill call
\* borrows it.
Drop ==
    /\ alive = "alive"
    /\ \A t \in Threads : fpc[t] = "idle"
    /\ alive' = IF DropAssert(current, Len(bytes)) THEN "dropped"
                ELSE "dropPanicked"
    /\ UNCHANGED <<bytes, current, fpc, fcur, dest, fres, nfills, returned>>
    /\ UNCHANGED <<dvars, ovars>>

\* One thread uses the source.
RandNext ==
    \/ FillRead(1)
    \/ FillCopy(1)
    \/ FillInc(1)
    \/ Drop

SpecRand == InitRand /\ [][RandNext]_vars

\* ------------------------- FixedSliceSequenceRandom, two threads

\* The most vectors of a source that two threads share.
MaxConcVectors == 2

\* A source just built that two threads share (fill takes &self), either
\* under exclusive access for each fill call or with no synchronisation.
InitRandConc ==
    /\ DriverInit
    /\ RandInit
    /\ Len(bytes) <= MaxConcVectors
    /\ BytesIdle
    /\ exclusive \in BOOLEAN
    /\ ftmp = [t \in Threads |-> 0]
    /\ FileIdle

\* Thread t enters fill: under exclusive access, only while no other thread
\* is inside fill.
ConcFillRead(t) ==
    /\ exclusive => \A u \in Threads \ {t} : fpc[u] = "idle"
    /\ FillRead(t)

\* fill, line 455: `+= 1` on the UnsafeCell is a load and a store; this is
\* the load.
FillIncLoad(t) ==
    /\ fpc[t] = "copied"
    /\ ftmp' = [ftmp EXCEPT ![t] = current]
    /\ fpc' = [fpc EXCEPT ![t] = "loaded"]
    /\ UNCHANGED <<bytes, current, fcur, dest, fres, alive, nfills, returned>>
    /\ UNCHANGED <<dvars, bvars, pvars, exclusive>>

\* fill, lines 455-456: the store of the incremented value, and the return
\* of Ok(()).
FillIncStore(t) ==
    /\ fpc[t] = "loaded"
    /\ current' = CursorAfterFill(ftmp[t])
    /\ fres' = [fres EXCEPT ![t] = "Ok"]
    /\ fpc' = [fpc EXCEPT ![t] = "idle"]
    /\ returned' = Append(returned, dest[t])
    /\ UNCHANGED <<bytes, fcur, dest, alive, nfills>>
    /\ UNCHANGED <<dvars, ovars>>

\* Two threads use the source.
RandConcNext ==
    \/ \E t \in Threads : ConcFillRead(t)
    \/ \E t \in Threads : FillCopy(t)
    \/ \E t \in Threads : FillIncLoad(t)
    \/ \E t \in Threads : FillIncStore(t)
    \/ Drop

SpecRandConc == InitRandConc /\ [][RandConcNext]_vars

\* ------------------------------------- parse_test_case, a whole file

\* The lines of the files parsed whole: blank, comment, marker, three
\* attribute lines (plain, padded, with " = " twice), a line without
\* " = " and a line of whitespace.
FileLineSet ==
    { <<>>,
      <<"#", "c">>,
      <<"[", "s", "]">>,
      <<"K", " ", "=", " ", "0", "a">>,
      <<" ", "K", " ", " ", "=", " ", " ", "7", " ">>,
      <<"J", " ", "=", " ", "a", " ", "=", " ", "b">>,
      <<"K", "=", "7">>,
      <<" ">> }

\* The files parsed whole.
Files == UNION {[1..n -> FileLineSet] : n \in 0..MaxLines}

\* from_file is about to open a file (lines 246-249) whose lines are fixed
\* in advance; no case returned yet.
InitFile ==
    /\ DriverInit
    /\ RandIdle
    /\ BytesIdle
    /\ ConcIdle
    /\ file \in Files
    /\ cases = <<>>

\* lines.next() gives the next line of the file.
FileLine ==
    /\ pc = "parse"
    /\ nread < Len(file)
    /\ ReadLineOf(file[nread + 1])
    /\ UNCHANGED <<rvars, ovars>>

\* lines.next() gives None after the last line.
FileEof ==
    /\ nread = Len(file)
    /\ ReadEof

\* The loop of from_file (lines 254-283) with a callback that keeps the
\* case it is given: the case parse_test_case returned is recorded, and the
\* next call of parse_test_case begins with a new vector and is_first_line
\* set (lines 323-325).
FileCollect ==
    /\ pc = "call"
    /\ cases' = Append(cases, test_case)
    /\ pc' = "parse"
    /\ attributes' = FreshAttributes
    /\ is_first_line' = TRUE
    /\ test_case' = <<>>
    /\ UNCHANGED <<nread, eof, current_section, failed, result, printed,
                   nblocks, runResult, cbSection, cbResult, panicMsg, ncalls,
                   lastKey, lastSome, lastVal, emitted, invoked, lastMarker,
                   accFailed, reads, lastHadRead, nfailed, noSepRead,
                   lastNext, lastFirst, contentRead, nattr>>
    /\ UNCHANGED <<rvars, bvars, cvars, file>>

FileNext ==
    \/ OpenOk
    \/ FileLine
    \/ FileEof
    \/ FileCollect

SpecFile == InitFile /\ [][FileNext]_vars

\* ------------------------------------------------ consume_bytes, alone

\* The longest attribute value consume_bytes is called on.
MaxValLen == 3

\* The characters of those values: the quote, hex digits of the three
\* kinds, and a letter that is no hex digit.
ValueChars == {"\"", "0", "a", "F", "g"}

\* The values an attribute can hold: parse_test_case trims the value and
\* asserts that it is not empty (lines 379-383).
Values == UNION {[1..n -> ValueChars] : n \in 1..MaxValLen}

\* A TestCase with the one attribute K, not consumed, and a driver and a
\* random source that do not run.
InitBytes ==
    /\ DriverInit
    /\ RandIdle
    /\ bcase \in {<<Attr(<<"K">>, v, FALSE)>> : v \in Values}
    /\ bout = NotCalled
    /\ ConcIdle
    /\ FileIdle

\* consume_bytes("K"), lines 160-180, on that TestCase.
CallConsumeBytes ==
    /\ ~bout.called
    /\ LET r == ConsumeBytes(bcase, <<"K">>)
       IN  /\ bcase' = r.attrs
           /\ bout' = [called |-> TRUE,
                       panic |-> r.panic,
                       bytes |-> IF r.panic = "" THEN DecodeBytes(r.val).bytes
                                 ELSE <<>>]
    /\ UNCHANGED <<dvars, rvars, cvars, pvars>>

NextBytes == CallConsumeBytes

SpecBytes == InitBytes /\ [][NextBytes]_vars

\* ------------------------------------------------------------- properties

\* Every attribute of the case at hand is consumed.
AllConsumed == \A i \in 1..Len(test_case) : test_case[i].consumed

\* The run ended the way a scan of a whole file ends: normally or with the
\* aggregate failure.
EndedAfterScan == runResult \in {"Ok", "TestFailed"}

C2_Classification ==
    pc = "handled" =>
        /\ result \in {"", MsgUnconsumed, MsgReturnedErr, MsgPanicked}
        /\ result = "" <=> (cbResult = "Ok" /\ AllConsumed)
        /\ result = MsgUnconsumed <=> (cbResult = "Ok" /\ ~AllConsumed)
        /\ result = MsgReturnedErr <=> cbResult = "Err"
        /\ result = MsgPanicked <=> cbResult = "Panic"

\* C2, witness: a callback that returned Ok after consuming one attribute
\* of two is classified as leaving attributes unconsumed.
C2_Witness ==
    /\ pc = "handled"
    /\ cbResult = "Ok"
    /\ Len(test_case) = 2
    /\ test_case[1].consumed
    /\ ~test_case[2].consumed
    /\ result = MsgUnconsumed

\* C3: the aggregate failure is raised only once the file is read to its
\* end; the failed flag says at every moment whether some case of the run
\* has failed, so a passing case never clears it; and a run that reaches
\* the end of the file ends with the aggregate failure if and only if some
\* case failed, and normally otherwise.
C3_AggregateFailure ==
    /\ runResult = "TestFailed" => eof /\ pc = "done"
    /\ pc # "handle" => (failed <=> nfailed > 0)
    /\ (pc = "done" /\ runResult \notin FatalPanics) =>
          /\ runResult = "TestFailed" <=> nfailed > 0
          /\ runResult = "Ok" <=> nfailed = 0

\* C3, witness: the run ends with the aggregate failure although the last
\* of its two cases passed.
C3_Witness ==
    /\ pc = "done"
    /\ runResult = "TestFailed"
    /\ invoked = <<1, 2>>
    /\ nfailed = 1
    /\ nblocks = 1
    /\ printed = NoDump

\* C4: within one case at most one consume call gets an attribute's value:
\* no attribute's value is returned twice, and an accessor call on a key
\* whose attribute was already returned by an earlier call panics with
\* AlreadyConsumed and returns nothing.
C4_AtMostOneRead ==
    /\ \A i \in 1..Len(reads) : reads[i] <= 1
    /\ (pc \in {"callback", "handle", "handled"} /\ lastHadRead) =>
          /\ panicMsg = "AlreadyConsumed"
          /\ cbResult = "Panic"
          /\ ~lastSome

\* C4, witness: the second read of a key by the same callback panicked with
\* AlreadyConsumed.
C4_Witness ==
    /\ pc = "handle"
    /\ ncalls = 2
    /\ lastHadRead
    /\ lastKey = <<"K">>
    /\ reads = <<1>>
    /\ panicMsg = "AlreadyConsumed"

IsDumpLineOf(line, a) ==
    LET n == Len(a.name)
        m == IF a.consumed THEN 0 ELSE Len(UnconsumedStr)
    IN  /\ Len(line) = n + m + 3 + Len(a.value)
        /\ SubSeq(line, 1, n) = a.name
        /\ SubSeq(line, n + 1, n + m) =
              (IF a.consumed THEN <<>> ELSE UnconsumedStr)
        /\ SubSeq(line, n + m + 1, n + m + 3) = <<" ", "=", " ">>
        /\ SubSeq(line, n + m + 4, Len(line)) = a.value

\* C6: one diagnostic block is printed for each case that fails and none
\* for a case that passes: the blocks printed so far are as many as the
\* cases that failed so far, and once a case is handled, before the parser
\* is called again, a passing case has printed nothing and a failing case
\* has printed its header and one line per attribute, in the order of the
\* attributes, with the value, and with the marker exactly on the
\* attributes that are not consumed.
C6_DiagnosticBlock ==
    /\ nblocks = nfailed
    /\ pc \in {"open", "parse", "call", "callback", "handle"} =>
          printed = NoDump
    /\ pc = "handled" =>
          IF cbResult = "Ok" /\ AllConsumed
          THEN printed = NoDump
          ELSE /\ printed.header = <<"path", result>>
               /\ Len(printed.lines) = Len(test_case)
               /\ \A i \in 1..Len(test_case) :
                     IsDumpLineOf(printed.lines[i], test_case[i])

\* C6, witness: the block of a failed case of two attributes, the first
\* consumed and the second not.
C6_Witness ==
    /\ pc = "handled"
    /\ result # ""
    /\ Len(printed.lines) = 2
    /\ test_case[1].consumed
    /\ ~test_case[2].consumed

\* C7 as stated: a run that ends with the syntax error has delivered no
\* case to the callback.
C7_NoCaseDelivered ==
    runResult = "SyntaxError" => invoked = <<>>

\* C7, amended: when a content line without " = " is read, the run ends
\* there with the syntax error, and a run ends with the syntax error only
\* then; the pending case is not returned by the parser, so the callback
\* has been invoked on the cases that ended before that line and on no
\* other.
C7_SyntaxErrorStopsDelivery ==
    /\ noSepRead <=> runResult = "SyntaxError"
    /\ noSepRead =>
          /\ pc = "done"
          /\ Len(invoked) = emitted
          /\ invoked = [i \in 1..emitted |-> i]

\* C7, witness: the syntax error is raised on the second case, after the
\* first case was delivered, with an attribute of the second case pending.
C7_Witness ==
    /\ runResult = "SyntaxError"
    /\ invoked = <<1>>
    /\ Len(attributes) = 1

\* C8: the section the callback is called with is the text enclosed by the
\* last marker line accepted, the empty string when there was none; it
\* stays so from case to case until another marker is accepted, and the
\* callback does not change it.
C8_SectionPassed ==
    /\ current_section = lastMarker
    /\ pc \in {"callback", "handle", "handled"} =>
          cbSection = current_section

\* C8, witness: the second case after the marker [s] is in the callback,
\* with section s.
C8_Witness ==
    /\ pc = "callback"
    /\ invoked = <<1, 2>>
    /\ cbSection = <<"s">>
    /\ nread = 4

\* C9: the fill calls that returned Ok have written, in order, the first
\* vectors of the source, one each, and the cursor is the number of these
\* calls.
C9_FillInOrder ==
    /\ Len(returned) <= Len(bytes)
    /\ returned = SubSeq(bytes, 1, Len(returned))
    /\ current = Len(returned)

\* C9, witness: three fill calls have returned the three vectors of a
\* source whose first two vectors differ.
C9_Witness ==
    /\ Len(bytes) = 3
    /\ returned = bytes
    /\ bytes[1] # bytes[2]
    /\ Len(bytes[1]) = Len(bytes[2])

\* C10: the source is destroyed without a panic if and only if fill has
\* returned Ok once for each vector, and a fill call that finds the cursor
\* at the number of vectors panics and writes nothing.
C10_DropPostCondition ==
    /\ alive = "dropped" => Len(returned) = Len(bytes)
    /\ alive = "dropPanicked" => Len(returned) < Len(bytes)
    /\ \A t \in Threads :
          (fres[t] # "none" /\ fcur[t] >= Len(bytes)) =>
              /\ fres[t] = "IndexPanic"
              /\ \A i \in 1..Len(dest[t]) : dest[t][i] = Unwritten

\* C10, witness: a source of two vectors destroyed after one fill.
C10_Witness ==
    /\ alive = "dropPanicked"
    /\ Len(bytes) = 2
    /\ Len(returned) = 1

\* A line has just been read from the file.
LineRead == nread' = nread + 1

\* The line read changes nothing of the parser or of the run: no attribute
\* is added, no case starts or ends, the section stays, nothing panics.
LineIgnored ==
    /\ pc' = pc
    /\ UNCHANGED <<attributes, is_first_line, current_section, test_case,
                   emitted, invoked, runResult>>

\* The first character of the line that is not whitespace is '#'.
FirstNonBlankIsHash(line) ==
    \E i \in 1..Len(line) :
        line[i] = "#" /\ \A j \in 1..(i - 1) : IsWhitespace(line[j])

\* C11 as stated: a line whose first character that is not whitespace is
\* '#' is ignored in every parser state.
C11_CommentAfterWhitespace ==
    [][(LineRead /\ FirstNonBlankIsHash(lastNext'.text)) => LineIgnored]_vars

\* C11, amended: a line whose first character is '#' is ignored in every
\* parser state: it adds no attribute, neither ends nor starts a case,
\* leaves the section as it is and raises no error.
C11_CommentIgnored ==
    [][(LineRead /\ StartsWith(lastNext'.text, "#")) => LineIgnored]_vars

\* C11, witness: a comment line was read inside a case, after an attribute
\* line, and the case is still pending with that attribute.
C11_Witness ==
    /\ pc = "parse"
    /\ lastNext = SomeLine(<<"#", "c">>)
    /\ ~lastFirst
    /\ ~is_first_line
    /\ Len(attributes) = 1
    /\ runResult = "running"

\* The attributes of the case at hand that are named key and not consumed.
UnconsumedNamed(key) ==
    {i \in 1..Len(test_case) :
        test_case[i].name = key /\ ~test_case[i].consumed}

\* The case at hand declares some key more than once.
HasDuplicateKey ==
    \E i, j \in 1..Len(test_case) :
        i < j /\ test_case[i].name = test_case[j].name

\* C12: an accessor call on a key finds the first attribute of that name
\* whose consumed flag is false, sets its flag and gets its raw value, in
\* every test case, also when the key is declared more than once.
C12_FirstUnconsumed ==
    [][(pc = "callback" /\ ncalls' = ncalls + 1
        /\ UnconsumedNamed(lastKey') # {}) =>
          LET i == CHOOSE k \in UnconsumedNamed(lastKey') :
                      \A j \in UnconsumedNamed(lastKey') : k <= j
          IN  /\ lastVal' = test_case[i].value
              /\ test_case' = [test_case EXCEPT ![i].consumed = TRUE]]_vars

\* The value consume_bytes was called on.
CalledValue == bcase[1].value

\* What is between the first and the last character of a value.
Enclosed(v) == SubSeq(v, 2, Len(v) - 1)

\* The value of a hex digit, by the table of the digits.
HexValue(c) ==
    CASE c = "0" -> 0  [] c = "1" -> 1  [] c = "2" -> 2  [] c = "3" -> 3
      [] c = "4" -> 4  [] c = "5" -> 5  [] c = "6" -> 6  [] c = "7" -> 7
      [] c = "8" -> 8  [] c = "9" -> 9
      [] c \in {"a", "A"} -> 10  [] c \in {"b", "B"} -> 11
      [] c \in {"c", "C"} -> 12  [] c \in {"d", "D"} -> 13
      [] c \in {"e", "E"} -> 14  [] c \in {"f", "F"} -> 15
      [] OTHER -> -1

\* A value not starting with a quote is decoded as hex: the call fails when
\* the length is odd or a character is no hex digit, and else returns one
\* byte per pair of digits.
HexDecoded ==
    LET v == CalledValue
        bad == Len(v) % 2 # 0 \/ \E i \in 1..Len(v) : HexValue(v[i]) = -1
    IN  IF bad THEN bout.panic = "HexError"
        ELSE /\ bout.panic = ""
             /\ Len(bout.bytes) = Len(v) \div 2
             /\ \A k \in 1..Len(bout.bytes) :
                  bout.bytes[k] = 16 * HexValue(v[2 * k - 1]) + HexValue(v[2 * k])

\* C13 as stated: a value that starts and ends with a quote gives the bytes
\* between the two quotes, the failure ExpectedQuoted happens exactly when
\* the value starts with a quote and does not end with one, and any other
\* value is decoded as hex.
C13_QuotedWheneverEndsWithQuote ==
    bout.called =>
      LET v == CalledValue
      IN  /\ (StartsWith(v, "\"") /\ EndsWith(v, "\"")) =>
                (bout.panic = "" /\ bout.bytes = Enclosed(v))
          /\ (bout.panic = "ExpectedQuoted") <=>
                (StartsWith(v, "\"") /\ ~EndsWith(v, "\""))
          /\ ~StartsWith(v, "\"") => HexDecoded

\* C13, amended: a value of two characters or more that starts and ends with
\* a quote gives the bytes between the two quotes (none for the value made
\* of two quotes); the value made of one quote alone fails, with the
\* out-of-range panic of String::remove; ExpectedQuoted happens exactly
\* when the value starts with a quote and does not end with one; any other
\* value is decoded as hex. The attribute is consumed in every case.
C13_ConsumeBytes ==
    bout.called =>
      LET v == CalledValue
      IN  /\ bcase[1].consumed
          /\ (StartsWith(v, "\"") /\ EndsWith(v, "\"") /\ Len(v) >= 2) =>
                (bout.panic = "" /\ bout.bytes = Enclosed(v))
          /\ v = <<"\"">> => bout.panic = "RemoveOutOfRange"
          /\ (bout.panic = "ExpectedQuoted") <=>
                (StartsWith(v, "\"") /\ ~EndsWith(v, "\""))
          /\ ~StartsWith(v, "\"") => HexDecoded

C13_Witness ==
    /\ bout.called
    /\ CalledValue = <<"\"", "a", "\"">>
    /\ bout = [called |-> TRUE, panic |-> "", bytes |-> <<"a">>]

\* The last fill calls of the two threads have both returned Ok after
\* reading the same cursor value: they have returned the same vector.
SameVectorTwice ==
    /\ fres[1] = "Ok" /\ fres[2] = "Ok"
    /\ fcur[1] = fcur[2]

\* Fewer increments are left in the cursor than fill calls have returned Ok.
IncrementLost ==
    \A t \in Threads : fpc[t] = "idle" /\ current < Len(returned)

\* C14: when every fill call runs under exclusive access, no two calls
\* return the same vector and no increment is lost: the calls that returned
\* have handed out the first vectors in order, and once no call is inside
\* fill the cursor counts them.
C14_ExclusiveFillSafe ==
    exclusive =>
      /\ ~SameVectorTwice
      /\ ~IncrementLost
      /\ Len(returned) <= Len(bytes)
      /\ \A i \in 1..Len(returned) : returned[i] = bytes[i]

\* C14, witness: without exclusive access two calls have returned the same
\* vector and the cursor has advanced by one only.
C14_Witness ==
    /\ ~exclusive
    /\ SameVectorTwice
    /\ IncrementLost
    /\ Len(returned) = 2
    /\ current = 1

\* What a line of FileLineSet is, by the grammar of the file format.
LineKind(line) ==
    CASE line = <<>> -> "blank"
      [] line = <<"#", "c">> -> "comment"
      [] line = <<"[", "s", "]">> -> "marker"
      [] line \in { <<"K", " ", "=", " ", "0", "a">>,
                    <<" ", "K", " ", " ", "=", " ", " ", "7", " ">>,
                    <<"J", " ", "=", " ", "a", " ", "=", " ", "b">> } -> "attribute"
      [] OTHER -> "bad"

\* The attribute an attribute line of FileLineSet declares: the line split
\* at the first " = ", key and value trimmed, not consumed.
LineAttr(line) ==
    CASE line = <<"K", " ", "=", " ", "0", "a">> ->
            [name |-> <<"K">>, value |-> <<"0", "a">>, consumed |-> FALSE]
      [] line = <<" ", "K", " ", " ", "=", " ", " ", "7", " ">> ->
            [name |-> <<"K">>, value |-> <<"7">>, consumed |-> FALSE]
      [] line = <<"J", " ", "=", " ", "a", " ", "=", " ", "b">> ->
            [name |-> <<"J">>, value |-> <<"a", " ", "=", " ", "b">>,
             consumed |-> FALSE]

\* Lines i and j of f are in the same block: no blank line between them.
SameBlock(f, i, j) == \A k \in i..j : LineKind(f[k]) # "blank"

\* A grammatically valid file: no bad line, and no marker after an
\* attribute line of its block.
ValidFile(f) ==
    /\ \A i \in 1..Len(f) : LineKind(f[i]) # "bad"
    /\ \A i, j \in 1..Len(f) :
         (i < j /\ LineKind(f[i]) = "attribute" /\ LineKind(f[j]) = "marker")
           => ~SameBlock(f, i, j)

\* The attributes the attribute lines among lines i..Len(f) of f declare up
\* to the first blank line, in file order.
RECURSIVE RunFrom(_, _)
RunFrom(f, i) ==
    IF i > Len(f) \/ LineKind(f[i]) = "blank" THEN <<>>
    ELSE IF LineKind(f[i]) = "attribute"
         THEN <<LineAttr(f[i])>> \o RunFrom(f, i + 1)
         ELSE RunFrom(f, i + 1)

\* Line i of f begins a block: it is the first line, or follows a blank
\* line.
BlockStart(f, i) == i = 1 \/ LineKind(f[i - 1]) = "blank"

\* The maximal runs of attribute lines of f from line i on, delimited by
\* blank lines or the end of the file, in file order; a block without an
\* attribute line gives no run.
RECURSIVE RunsFrom(_, _)
RunsFrom(f, i) ==
    IF i > Len(f) THEN <<>>
    ELSE IF BlockStart(f, i) /\ RunFrom(f, i) # <<>>
         THEN <<RunFrom(f, i)>> \o RunsFrom(f, i + 1)
         ELSE RunsFrom(f, i + 1)

\* C15: for a grammatically valid file the scan raises no grammar error,
\* the cases returned so far are the first maximal runs of attribute lines
\* of the file, and when the file is exhausted they are all of them, each
\* with its attributes in file order, split at the first " = ", trimmed and
\* not consumed.
C15_CasesAreRuns ==
    ValidFile(file) =>
      /\ runResult = "running"
      /\ Len(cases) <= Len(RunsFrom(file, 1))
      /\ cases = SubSeq(RunsFrom(file, 1), 1, Len(cases))
      /\ pc = "exhausted" => cases = RunsFrom(file, 1)

\* C15, witness: a leading blank line is absorbed, a line with " = " twice
\* makes a case ended by a blank line, and the end of the file emits the
\* last case.
C15_Witness ==
    /\ pc = "exhausted"
    /\ file = << <<>>,
                 <<"J", " ", "=", " ", "a", " ", "=", " ", "b">>,
                 <<>>,
                 <<" ", "K", " ", " ", "=", " ", " ", "7", " ">> >>
    /\ cases = << <<Attr(<<"J">>, <<"a", " ", "=", " ", "b">>, FALSE)>>,
                  <<Attr(<<"K">>, <<"7">>, FALSE)>> >>

\* C16: a case parse_test_case has returned, and any case the callback is
\* invoked on, holds at least one attribute; as long as only blank lines,
\* comment lines and section markers were read, no case was returned and
\* the callback was not invoked.
C16_NoEmptyCase ==
    /\ pc \in {"call", "callback", "handle", "handled"} => Len(test_case) >= 1
    /\ ~contentRead => (emitted = 0 /\ invoked = <<>> /\ test_case = <<>>)

\* C16, witness: a file of a blank line, a marker and a comment is
\* exhausted without a case.
C16_Witness ==
    /\ pc = "exhausted"
    /\ nread = 3
    /\ ~contentRead
    /\ lastMarker = <<"s">>
    /\ lastNext = NoLine
    /\ emitted = 0

\* The last line read starts with '['.
LastStartsWithBracket == ~lastNext.none /\ StartsWith(lastNext.text, "[")

\* C17: a line starting with '[' is accepted only when it is read as the
\* first line of a pending case and ends with ']': then the current section
\* is the text it encloses and the pending case still has no attribute.
\* Read after an attribute line of the pending case, or without the final
\* ']', it ends the scan with the grammar error of its assertion, and the
\* pending case is not returned, nor given to the callback.
C17_MarkerOnlyFirst ==
    LastStartsWithBracket =>
      IF lastFirst /\ EndsWith(lastNext.text, "]")
      THEN /\ runResult \in {"running", "IoError"}
           /\ current_section = Enclosed(lastNext.text)
           /\ attributes = <<>>
           /\ is_first_line
      ELSE /\ pc = "done"
           /\ runResult = IF ~lastFirst THEN "AssertFirstLine"
                          ELSE "AssertEndsWith"
           /\ test_case = <<>>
           /\ Len(invoked) = emitted

\* C17, witness: the second case of a file has an attribute when a marker
\* is read; the scan ends there, after one case given to the callback.
C17_Witness ==
    /\ LastStartsWithBracket
    /\ ~lastFirst
    /\ runResult = "AssertFirstLine"
    /\ Len(attributes) = 1
    /\ emitted = 1
    /\ invoked = <<1>>

\* C18: the case parse_test_case has just returned, and the case the
\* callback is entered with, has every attribute unconsumed and not read,
\* whatever happened to the cases before; and it holds no attribute of an
\* earlier case: each earlier case took an attribute line and the blank
\* line that ended it, so the attributes of the case are at most the lines
\* read since.
C18_DeliveredUnconsumed ==
    (pc = "call" \/ (pc = "callback" /\ ncalls = 0)) =>
      /\ \A i \in 1..Len(test_case) : ~test_case[i].consumed
      /\ test_case = attributes
      /\ Len(test_case) <= nread - 2 * (emitted - 1)

\* C18, witness: the second case is returned after the first one, of two
\* attributes, ended by the panic of an accessor.
C18_Witness ==
    /\ pc = "call"
    /\ emitted = 2
    /\ nread = 4
    /\ accFailed
    /\ failed
    /\ nfailed = 1
    /\ Len(test_case) = 1
    /\ ~test_case[1].consumed

\* The grammar error a line raises when it is read with is_first_line =
\* first, "" when it raises none: a marker that is not the first line or
\* does not end with ']', a content line without " = ", a content line
\* with nothing but whitespace after its first " = ".
GrammarErrorOf(line, first) ==
    IF Len(line) = 0 \/ line[1] = "#" THEN ""
    ELSE IF line[1] = "["
         THEN IF ~first THEN "AssertFirstLine"
              ELSE IF line[Len(line)] # "]" THEN "AssertEndsWith" ELSE ""
    ELSE IF SepAt(line) = {} THEN "SyntaxError"
    ELSE LET i == CHOOSE k \in SepAt(line) : \A j \in SepAt(line) : k <= j
         IN  IF \A k \in (i + 3)..Len(line) : IsWhitespace(line[k])
             THEN "AssertValueLen" ELSE ""

\* The run has ended with a grammar error.
GrammarErrorRaised == runResult \in GrammarPanics

\* What holds once a grammar error is raised: the scan is over, the run's
\* result is the grammar error of the last line read, the pending case was
\* neither returned nor given to the callback, and the diagnostic blocks
\* printed are those of the cases that failed before.
GrammarErrorFinal ==
    /\ pc = "done"
    /\ ~lastNext.none
    /\ runResult = GrammarErrorOf(lastNext.text, lastFirst)
    /\ test_case = <<>>
    /\ Len(invoked) = emitted
    /\ printed = NoDump
    /\ nblocks = nfailed

\* C19: a line that is a grammar error raises it, whatever the cases before
\* did; once it is raised GrammarErrorFinal holds and the program takes no
\* further step: no line is read, the callback is not invoked, nothing is
\* printed, and the result is not replaced by the aggregate failure.
C19_GrammarErrorFatal ==
    [][/\ ~GrammarErrorRaised
       /\ (nread' = nread + 1
           /\ GrammarErrorOf(lastNext'.text, lastFirst') # "")
             => GrammarErrorRaised'
       /\ GrammarErrorRaised' => GrammarErrorFinal']_vars

\* C19, witness: a grammar error ends a run whose first case had failed and
\* had its diagnostic printed.
C19_Witness ==
    /\ GrammarErrorRaised
    /\ failed
    /\ nfailed = 1
    /\ nblocks = 1
    /\ emitted = 1
    /\ invoked = <<1>>

FillPanics == {"IndexPanic", "LengthPanic"}

\* C21: the cursor of a source built with the cursor at zero is never below
\* zero nor above the number of vectors; after a fill call that failed the
\* cursor is the value the call read, the vectors returned are those of the
\* calls before, and the vector at the cursor, if any, is the one the next
\* call reads.
C21_CursorInRange ==
    /\ current \in 0..Len(bytes)
    /\ fres[1] \in FillPanics =>
         /\ current = fcur[1]
         /\ Len(returned) = current
         /\ fres[1] = "IndexPanic" <=> current = Len(bytes)
         /\ fres[1] = "LengthPanic" =>
              Len(bytes[current + 1]) # Len(dest[1])

\* C21, witness: after one fill that returned Ok, a fill with a buffer of
\* the wrong length has failed and the cursor still points at the second
\* vector.
C21_Witness ==
    /\ fres[1] = "LengthPanic"
    /\ current = 1
    /\ Len(returned) = 1
    /\ Len(bytes) = 3
    /\ nfills = 2

\* The ways from_file ends: it returns, it panics with "Test failed.", or a
\* panic of the parser or of an unwrapped I/O error goes through it.
RunOutcomes == {"Ok", "TestFailed"} \cup FatalPanics

\* What holds of the lines and the callback at every moment of a run: each
\* line pushes at most one attribute, each case returned took an attribute
\* line of its own, and the callback was invoked at most once per case
\* returned, so never more often than attribute lines were read.
LinesBoundCalls ==
    /\ nattr <= nread
    /\ emitted <= nattr
    /\ Len(invoked) <= emitted
    /\ Len(invoked) <= nattr

\* Lines are taken from the file one at a time and never given back: a
\* step of the parser that finds a line moves past exactly that line, and
\* no other step moves in the file.
OneLinePerStep ==
    /\ nread' \in {nread, nread + 1}
    /\ (pc = "parse" /\ ~lastNext'.none /\ lastNext' # lastNext)
         => nread' = nread + 1
    /\ pc # "parse" => nread' = nread

\* C22: every run of from_file on a finite file, with a callback that
\* returns or panics, comes to an end, with one of its outcomes; all along,
\* a parser step consumes one line, no line is read twice, and the callback
\* is invoked no more often than attribute lines were read.
C22_Terminates ==
    /\ <>(pc = "done" /\ runResult \in RunOutcomes)
    /\ []LinesBoundCalls
    /\ [][OneLinePerStep]_vars

\* C22, witness: a run of four lines with two cases has ended with the
\* aggregate failure after two invocations of the callback.
C22_Witness ==
    /\ pc = "done"
    /\ runResult = "TestFailed"
    /\ nread = 4
    /\ nattr = 2
    /\ invoked = <<1, 2>>

====
